---- MODULE Spec2Model ----
(***************************************************************************)
(* Cohort-component population projection (src/src/ccmpp.h).               *)
(*                                                                         *)
(* The model holds one PopulationProjection container driven step by step  *)
(* (the loop of ccmpp, plus a caller that calls step_projection again on a *)
(* step already advanced) and one run of ccmpp_leslie on the same inputs.  *)
(* The scalar type Type is modelled by exact rationals <<num, den>>.       *)
(***************************************************************************)
EXTENDS Integers, Sequences, FiniteSets

\* ------------------------------------------------------------------ bounds
\* largest number of age groups (n_ages ranges over 2..MaxAges)
MaxAges == 3
\* largest horizon (n_steps ranges over 1..MaxSteps)
MaxSteps == 2
\* how many times a caller calls step_projection on an already advanced step
MaxReplays == 1

\* --------------------------------------------------- the scalar type Type
\* A scalar is <<n, d>> with d > 0 and gcd(|n|, d) = 1.  Indet is the content
\* of storage that was allocated and never written (Eigen does not initialise
\* a Matrix): arithmetic on it stays indeterminate.
Indet == <<0, 0>>

Abs(n) == IF n < 0 THEN -n ELSE n

\* F applied to the value of v.  The statements of a C++ function run one
\* after the other, each on the values the earlier ones left; With fixes that
\* order: what one statement computed is a value, not a formula, in the next.
With(v, F(_)) == CHOOSE r \in {F(x) : x \in {v}} : TRUE

RECURSIVE GCD(_, _)
GCD(a, b) == IF b = 0 THEN a ELSE GCD(b, a % b)

\* An arithmetic operation takes its operands by value: each is written as a
\* function on scalars applied to its operands.
Rat(n, d) ==
  [p \in Int, q \in Int |->
     LET g == GCD(Abs(p), q) IN <<p \div g, q \div g>>][n, d]

Zero == Rat(0, 1)
One == Rat(1, 1)
\* the literal 0.5
Half == Rat(1, 2)

IsNum(x) == x[2] # 0

RAdd(a, b) ==
  [x \in Int \X Int, y \in Int \X Int |->
     IF ~IsNum(x) \/ ~IsNum(y) THEN Indet
     ELSE LET g == GCD(x[2], y[2])
              l == (x[2] \div g) * y[2]
          IN  Rat(x[1] * (l \div x[2]) + y[1] * (l \div y[2]), l)][a, b]

RNeg(x) == <<-x[1], x[2]>>

RSub(x, y) == RAdd(x, RNeg(y))

RMul(a, b) ==
  [x \in Int \X Int, y \in Int \X Int |->
     IF ~IsNum(x) \/ ~IsNum(y) THEN Indet
     ELSE LET g1 == GCD(Abs(x[1]), y[2])
              g2 == GCD(Abs(y[1]), x[2])
          IN  <<(x[1] \div g1) * (y[1] \div g2), (x[2] \div g2) * (y[2] \div g1)>>][a, b]

\* x / y; a zero divisor (srb = -1) gives no number
RDiv(a, b) ==
  [x \in Int \X Int, y \in Int \X Int |->
     IF ~IsNum(x) \/ ~IsNum(y) \/ y[1] = 0 THEN Indet
     ELSE RMul(x, IF y[1] > 0 THEN <<y[2], y[1]>> ELSE <<-y[2], -y[1]>>)][a, b]

RLe(x, y) == IsNum(x) /\ IsNum(y) /\ x[1] * y[2] <= y[1] * x[2]

\* sum of the entries of a vector indexed lo..hi (Eigen's .sum())
RECURSIVE SumFrom(_, _, _)
SumFrom(v, lo, hi) == IF lo > hi THEN Zero ELSE RAdd(v[lo], SumFrom(v, lo + 1, hi))

\* ------------------------------------------------------------------ state
VARIABLES
  n_ages, n_steps, n_fx, fx_idx, age_span,   \* const members of the container
  sx, fx, gx, srb,                           \* parameter tables, [column][row]
  population, deaths, births, infants, migrations,  \* output tables, [column][row]
  step, pc,                                  \* the loop of ccmpp
  ncalls, last,                              \* how often step_projection was called, and with which step last
  basepop,                                   \* the initial population both projectors are given
  lpopulation, lstep, lpc, leslie            \* the run of ccmpp_leslie

params == <<n_ages, n_steps, n_fx, fx_idx, age_span, sx, fx, gx, srb, basepop>>
outputs == <<population, deaths, births, infants, migrations>>
direct == <<step, pc, ncalls, last>>
matrixrun == <<lpopulation, lstep, lpc, leslie>>
vars == <<params, outputs, direct, matrixrun>>

\* ----------------------------------------------------------------- inputs
\* The tables handed to ccmpp / ccmpp_leslie.  Each column is one of a few
\* age profiles; with shift = 1 the profile changes from one step to the next.
SxProfiles == 0..3
SxProfile(p, a) ==
  CASE p = 0 -> One                                 \* everybody survives
    [] p = 1 -> IF a % 2 = 0 THEN Half ELSE One     \* 1/2, 1, 1/2, 1, ...
    [] p = 2 -> IF a % 2 = 0 THEN One ELSE Zero     \* 1, 0, 1, 0, ...
    [] OTHER -> IF a % 2 = 0 THEN Rat(3, 2) ELSE Rat(-1, 2)   \* no survivorship: 3/2, -1/2, ...

FxProfiles == 0..1
FxProfile(p, k) ==
  CASE p = 0 -> Zero                                \* no fertility
    [] OTHER -> Rat((k % 2) + 1, 1)                 \* 1, 2, 1, 2, ...

GxProfiles == 0..3
GxProfile(p, t, a) ==
  CASE p = 0 -> Zero                                \* closed population
    [] p = 1 -> IF t = 0 THEN Rat(1, 10) ELSE Zero  \* 10% in-migration in the first step
    [] p = 2 -> IF a % 2 = 0 THEN Half ELSE Zero    \* 1/2, 0, 1/2, 0, ...
    [] OTHER -> IF a % 2 = 1 THEN Rat(-1, 1) ELSE Half   \* odd ages emigrate entirely

SrbProfiles == 0..1
SrbProfile(p) == IF p = 0 THEN Zero ELSE One

BaseProfiles == 0..1
BaseProfile(p, n, a) ==
  CASE p = 0 -> Rat(50 * (n - 1), 1)                \* [50, 50], [100, 100, 100], ...
    [] OTHER -> Rat(8 * (a + 1), 1)                 \* 8, 16, 24, ...

\* <<age_span, shift>>: one-year age groups with the same profile at every
\* step, five-year age groups with the profile changing from step to step
Horizons == {<<One, 0>>, <<Rat(5, 1), 1>>}

\* the profile of column t
Rot(p, t, shift, profiles) == (p + t * shift) % Cardinality(profiles)

\* table shapes meeting the documented preconditions:
\* n_ages >= 2, fx_idx >= 1, n_fx >= 1, fx_idx + n_fx - 1 <= n_ages - 1
Shapes ==
  { s \in (2..MaxAges) \X (1..MaxAges) \X (1..MaxAges) :
      s[2] + s[3] - 1 <= s[1] - 1 }

\* PopulationProjection's constructor, and the allocation and first column of
\* ccmpp_leslie
Init ==
  \E s \in Shapes, ns \in 1..MaxSteps, h \in Horizons,
     pb \in BaseProfiles, ps \in SxProfiles, pf \in FxProfiles,
     pg \in GxProfiles, pr \in SrbProfiles :
    /\ n_ages = s[1]
    /\ fx_idx = s[2]
    /\ n_fx = s[3]
    /\ n_steps = ns
    /\ age_span = h[1]
    /\ basepop = [a \in 0..s[1]-1 |-> BaseProfile(pb, s[1], a)]
    /\ sx = [t \in 0..ns-1 |-> [a \in 0..s[1] |-> SxProfile(Rot(ps, t, h[2], SxProfiles), a)]]
    /\ fx = [t \in 0..ns-1 |-> [k \in 0..s[3]-1 |-> FxProfile(Rot(pf, t, h[2], FxProfiles), k)]]
    /\ gx = [t \in 0..ns-1 |-> [a \in 0..s[1]-1 |-> GxProfile(Rot(pg, t, h[2], GxProfiles), t, a)]]
    /\ srb = [t \in 0..ns-1 |-> SrbProfile(Rot(pr, t, h[2], SrbProfiles))]
    /\ population = [t \in 0..ns |->
                       IF t = 0 THEN [a \in 0..s[1]-1 |-> BaseProfile(pb, s[1], a)]
                       ELSE [a \in 0..s[1]-1 |-> Indet]]
    /\ deaths = [t \in 0..ns-1 |-> [i \in 0..s[1] |-> Indet]]
    /\ births = [t \in 0..ns-1 |-> [k \in 0..s[3]-1 |-> Indet]]
    /\ infants = [t \in 0..ns-1 |-> Indet]
    /\ migrations = [t \in 0..ns-1 |-> [a \in 0..s[1]-1 |-> Indet]]
    /\ step = 0
    /\ pc = "loop"
    /\ ncalls = 0
    /\ last = -1
    /\ lpopulation = [t \in 0..ns |->
                        IF t = 0 THEN [a \in 0..s[1]-1 |-> BaseProfile(pb, s[1], a)]
                        ELSE [a \in 0..s[1]-1 |-> Indet]]
    /\ lstep = 0
    /\ lpc = "loop"
    /\ leslie = <<>>

\* ------------------------------------------------------- step_projection
\* the column each Map of step_projection is bound to
\* slip: the Map is bound to the column it reads (the step is done in place)
population_t_col_in_place(s) == s
population_t_col(s) == s + 1
migrations_t_col(s) == s
deaths_t_col(s) == s
births_t_col(s) == s
\* slip: infants.col(0)
infants_t_col_first(s) == 0
infants_t_col(s) == s

\* migrations_t = population_t * gx_t
migrants_of(population_t, gx_t) ==
  [a \in DOMAIN population_t |-> RMul(population_t[a], gx_t[a])]

\* slip: the factor 0.5 is forgotten
add_all_migrants(population_t, migrations_t) ==
  [a \in DOMAIN population_t |-> RAdd(population_t[a], migrations_t[a])]

\* population_t += 0.5 * migrations_t
add_half_migrants(population_t, migrations_t) ==
  [a \in DOMAIN population_t |-> RAdd(population_t[a], RMul(Half, migrations_t[a]))]

\* deaths_t.segment(1, n_ages) = population_t * (1.0 - sx_t.segment(1, n_ages))
deaths_segment(population_t, sx_t) ==
  [i \in 1..n_ages |-> RMul(population_t[i - 1], RSub(One, sx_t[i]))]

\* 0.5 * age_span * fx_t * population_t.segment(fx_idx, n_fx)
births_exposure(population_t, fx_t) ==
  [k \in 0..n_fx-1 |->
     RMul(RMul(RMul(Half, age_span), fx_t[k]), population_t[fx_idx + k])]

\* Type open_age_survivors = population_t(n_ages-1) - deaths_t(n_ages)
open_age_survivors(population_t, deaths_t) ==
  RSub(population_t[n_ages - 1], deaths_t[n_ages])

\* for(int age = n_ages-1; age > 0; age--)
\*   population_t(age) = population_t(age-1) - deaths_t(age);
RECURSIVE aging_loop(_, _, _)
aging_loop(population_t, deaths_t, age) ==
  IF age > 0
  THEN With([population_t EXCEPT ![age] = RSub(population_t[age - 1], deaths_t[age])],
            LAMBDA aged : aging_loop(aged, deaths_t, age - 1))
  ELSE population_t

\* slip: a plain shift, the open age group keeps nobody
add_open_age_dropped(population_t, survivors) == population_t

\* population_t(n_ages-1) += open_age_survivors
add_open_age(population_t, survivors) ==
  [population_t EXCEPT ![n_ages - 1] = RAdd(@, survivors)]

\* infants_t = births_t.sum() / (1.0 + srb(step))
infants_of(births_t, srb_t) ==
  RDiv(SumFrom(births_t, 0, n_fx - 1), RAdd(One, srb_t))

\* slip: 1.0 + sx_t(0)
infant_deaths_plus(infants_t, sx_t) == RMul(infants_t, RAdd(One, sx_t[0]))

\* deaths_t(0) = infants_t(0) * (1.0 - sx_t(0))
infant_deaths(infants_t, sx_t) == RMul(infants_t, RSub(One, sx_t[0]))

\* slip: infant deaths are not taken off
set_age_zero_all_infants(population_t, infants_t, deaths0) ==
  [population_t EXCEPT ![0] = infants_t]

\* slip: the statement is missing
set_age_zero_skipped(population_t, infants_t, deaths0) == population_t

\* population_t(0) = infants_t(0) - deaths_t(0)
set_age_zero(population_t, infants_t, deaths0) ==
  [population_t EXCEPT ![0] = RSub(infants_t, deaths0)]

\* The body of step_projection(s) from the tables as they stand: the columns
\* it leaves behind.
step_columns(s) ==
  LET sx_t == sx[s]
      fx_t == fx[s]
      gx_t == gx[s]
  IN
  With(population[s],                   LAMBDA p0 :
  With(migrants_of(p0, gx_t),           LAMBDA mig :
  With(add_half_migrants(p0, mig),      LAMBDA p1 :
  With(deaths_segment(p1, sx_t),        LAMBDA d1 :
  With(births_exposure(p1, fx_t),       LAMBDA b1 :
  With(open_age_survivors(p1, d1),      LAMBDA oas :
  With(aging_loop(p1, d1, n_ages - 1),  LAMBDA p2 :
  With(add_open_age(p2, oas),           LAMBDA p3 :
  With(births_exposure(p3, fx_t),       LAMBDA b2x :
  With([k \in 0..n_fx-1 |-> RAdd(b1[k], b2x[k])], LAMBDA b2 :
  With(infants_of(b2, srb[s]),          LAMBDA inf :
  With(infant_deaths(inf, sx_t),        LAMBDA d0 :
  With(set_age_zero(p3, inf, d0),       LAMBDA p4 :
  With(add_half_migrants(p4, mig),      LAMBDA p5 :
      [population_t |-> p5,
       migrations_t |-> mig,
       deaths_t |-> [i \in 0..n_ages |-> IF i = 0 THEN d0 ELSE d1[i]],
       births_t |-> b2,
       infants_t |-> inf]))))))))))))))

\* void PopulationProjection<Type>::step_projection(int step)
step_projection(s) ==
  LET c == step_columns(s) IN
    /\ population' = [population EXCEPT ![population_t_col(s)] = c.population_t]
    /\ migrations' = [migrations EXCEPT ![migrations_t_col(s)] = c.migrations_t]
    /\ deaths' = [deaths EXCEPT ![deaths_t_col(s)] = c.deaths_t]
    /\ births' = [births EXCEPT ![births_t_col(s)] = c.births_t]
    /\ infants' = [infants EXCEPT ![infants_t_col(s)] = c.infants_t]
    /\ ncalls' = ncalls + 1
    /\ last' = s

\* slip: the horizon is walked backwards
ccmpp_loop_reversed ==
  /\ pc = "loop"
  /\ step < n_steps
  /\ step_projection(n_steps - 1 - step)
  /\ step' = step + 1
  /\ UNCHANGED <<pc, params, matrixrun>>

\* ----------------------------------------------------------------- ccmpp
\* for(int step = 0; step < n_steps; step++) proj.step_projection(step);
ccmpp_loop ==
  /\ pc = "loop"
  /\ step < n_steps
  /\ step_projection(step)
  /\ step' = step + 1
  /\ UNCHANGED <<pc, params, matrixrun>>

\* return proj;
ccmpp_return ==
  /\ pc = "loop"
  /\ ~(step < n_steps)
  /\ pc' = "done"
  /\ UNCHANGED <<step, ncalls, last, params, outputs, matrixrun>>

\* A caller calls step_projection(k) again on a container in which steps
\* 0..k have been advanced in order.
replay(k) ==
  /\ k < step
  /\ ncalls < step + MaxReplays
  /\ step_projection(k)
  /\ UNCHANGED <<step, pc, params, matrixrun>>

Next ==
  \/ ccmpp_loop
  \/ ccmpp_return
  \/ \E k \in 0..MaxSteps : replay(k)

Spec == Init /\ [][Next]_vars

\* ---------------------------------------------------- make_leslie_matrix
\* Type fert_k = sx[0] * 0.5 * age_span / (1.0 + srb)
fert_k(sx_t, srb_t, span) ==
  RDiv(RMul(RMul(sx_t[0], Half), span), RAdd(One, srb_t))

\* slip: sx.block(fx_idx - 1, 0, fxd, 1)
fert_leslie_shifted(sx_t, fx_t, srb_t, span, idx) ==
  LET fxd == Cardinality(DOMAIN fx_t)
  IN  [i \in 0..fxd |->
         RMul(RAdd(IF i < fxd THEN RMul(fx_t[i], sx_t[idx + i - 1]) ELSE Zero,
                   IF i >= 1 THEN fx_t[i - 1] ELSE Zero),
              fert_k(sx_t, srb_t, span))]

\* fert_leslie: fxd + 1 entries, zero, then
\*   block(0, 0, fxd, 1) += fx * sx.block(fx_idx, 0, fxd, 1)
\*   block(1, 0, fxd, 1) += fx
\*   fert_leslie *= fert_k
fert_leslie(sx_t, fx_t, srb_t, span, idx) ==
  LET fxd == Cardinality(DOMAIN fx_t)
      z == [i \in 0..fxd |-> Zero]
      a == [i \in 0..fxd |-> IF i < fxd THEN RAdd(z[i], RMul(fx_t[i], sx_t[idx + i])) ELSE z[i]]
      b == [i \in 0..fxd |-> IF i >= 1 THEN RAdd(a[i], fx_t[i - 1]) ELSE a[i]]
  IN  [i \in 0..fxd |-> RMul(b[i], fert_k(sx_t, srb_t, span))]

\* for (int i = 0; i < fxd+1; i++) leslie.insert(0, fx_idx + i - 1) = fert_leslie[i];
fertility_inserts(sx_t, fx_t, srb_t, span, idx) ==
  LET fxd == Cardinality(DOMAIN fx_t)
      fl == fert_leslie(sx_t, fx_t, srb_t, span, idx)
  IN  [n \in 1..fxd+1 |-> [row |-> 0, col |-> idx + (n - 1) - 1, val |-> fl[n - 1]]]

\* for (int i = 1; i < dim; i++) leslie.insert(i, i-1) = sx[i];
survival_inserts(sx_t) ==
  LET dim == Cardinality(DOMAIN sx_t) - 1
  IN  [i \in 1..dim-1 |-> [row |-> i, col |-> i - 1, val |-> sx_t[i]]]

\* leslie.insert(dim-1, dim-1) = sx[dim];
open_age_insert(sx_t) ==
  LET dim == Cardinality(DOMAIN sx_t) - 1
  IN  [row |-> dim - 1, col |-> dim - 1, val |-> sx_t[dim]]

\* The matrix as the sequence of its inserted entries, in insertion order.
make_leslie_matrix(sx_t, fx_t, srb_t, span, idx) ==
  fertility_inserts(sx_t, fx_t, srb_t, span, idx)
    \o survival_inserts(sx_t)
    \o <<open_age_insert(sx_t)>>

\* ------------------------------------------------------------ ccmpp_leslie
\* row r of leslie * v
RECURSIVE row_times(_, _, _, _)
row_times(m, v, r, n) ==
  IF n = 0 THEN Zero
  ELSE RAdd(row_times(m, v, r, n - 1),
            IF m[n].row = r THEN RMul(m[n].val, v[m[n].col]) ELSE Zero)

\* leslie * v
matrix_times(m, v) == [r \in DOMAIN v |-> row_times(m, v, r, Len(m))]

\* for(int step = 0; step < nsteps; step++) { migrants; leslie; population.col(step + 1) = ... }
ccmpp_leslie_loop ==
  /\ lpc = "loop"
  /\ lstep < n_steps
  /\ LET migrants == migrants_of(lpopulation[lstep], gx[lstep])
         m == make_leslie_matrix(sx[lstep], fx[lstep], srb[lstep], age_span, fx_idx)
         moved == add_half_migrants(lpopulation[lstep], migrants)
     IN  /\ leslie' = m
         /\ lpopulation' = [lpopulation EXCEPT
                              ![lstep + 1] = add_half_migrants(matrix_times(m, moved), migrants)]
  /\ lstep' = lstep + 1
  /\ UNCHANGED <<lpc, params, outputs, direct>>

\* return population;
ccmpp_leslie_return ==
  /\ lpc = "loop"
  /\ ~(lstep < n_steps)
  /\ lpc' = "done"
  /\ UNCHANGED <<lstep, lpopulation, leslie, params, outputs, direct>>

\* both projectors on the same inputs
NextLeslie ==
  \/ ccmpp_loop
  \/ ccmpp_return
  \/ ccmpp_leslie_loop
  \/ ccmpp_leslie_return

LeslieSpec == Init /\ [][NextLeslie]_vars

\* a full-horizon run of ccmpp alone
NextRun ==
  \/ ccmpp_loop
  \/ ccmpp_return

\* ccmpp is one sequential function: nothing but its own loop and return runs,
\* and whichever of the two is next is executed
RunSpec == Init /\ [][NextRun]_vars /\ WF_vars(NextRun)

\* ------------------------------------------------------------- properties
Ages == 0..n_ages-1
\* the steps step_projection has completed
Advanced == 0..step-1
Total(v) == SumFrom(v, 0, n_ages - 1)
AllEqual(v, x) == \A i \in DOMAIN v : v[i] = x
NonNeg(v) == \A i \in DOMAIN v : RLe(Zero, v[i])
\* the fertile window reaches the open (oldest) age group
FertileOpenAge == fx_idx + n_fx - 1 = n_ages - 1

\* step_projection and ccmpp_leslie read no storage that was never written
ReadsAreDefined ==
  /\ \A t \in 0..step : \A a \in Ages : IsNum(population[t][a])
  /\ \A t \in 0..lstep : \A a \in Ages : IsNum(lpopulation[t][a])

\* C1: the matrix-form projector and the direct recurrence give the same
\* total population at every time point both have computed.
C1_PathsAgree ==
  \A t \in 0..n_steps :
    (t <= step /\ t <= lstep) => Total(lpopulation[t]) = Total(population[t])

\* The two projectors do agree, column by column, whenever the fertile window
\* stops short of the open age group.
PathsAgreeBelowOpenAge ==
  ~FertileOpenAge =>
    \A t \in 0..n_steps : (t <= step /\ t <= lstep) => lpopulation[t] = population[t]

\* C2: closed-population conservation.  For every advanced step t whose gx
\* column is zero: sum(population[:, t+1]) + sum(deaths[:, t]) (all n_ages+1
\* entries) = sum(population[:, t]) + infants[t].
C2_Conservation ==
  \A t \in Advanced :
    AllEqual(gx[t], Zero) =>
      RAdd(Total(population[t + 1]), SumFrom(deaths[t], 0, n_ages))
        = RAdd(Total(population[t]), infants[t])

C2_Witness ==
  \E t \in Advanced :
    /\ AllEqual(gx[t], Zero)
    /\ infants[t] # Zero
    /\ deaths[t][0] # Zero
    /\ deaths[t][n_ages] # Zero
    /\ Total(population[t + 1]) # Total(population[t])

\* a call of step_projection on a step that was advanced before
IsReplay == ncalls' # ncalls /\ step' = step

\* C3 as stated: calling step_projection(k) a second time leaves the output
\* tables different from those of the in-order run.
C3_ReplayCorrupts == [][IsReplay => outputs' # outputs]_vars

\* C3 amended: calling step_projection(k) again, after steps 0..k (and
\* possibly later ones) were advanced in order, leaves population, deaths,
\* births, infants and migrations exactly as they were.
C3_ReplayIdempotent == [][IsReplay => outputs' = outputs]_vars

C3_Witness ==
  /\ ncalls > step
  /\ step >= 2
  /\ last = 0
  /\ \E a \in Ages : population[1][a] # population[0][a]

\* the documented input domain of C4, with net migration rates >= -1
InDomain ==
  /\ NonNeg(basepop)
  /\ RLe(Zero, age_span)
  /\ \A t \in 0..n_steps-1 :
       /\ \A a \in 0..n_ages : RLe(Zero, sx[t][a]) /\ RLe(sx[t][a], One)
       /\ NonNeg(fx[t])
       /\ RLe(Zero, srb[t])
       /\ \A a \in Ages : RLe(Rat(-1, 1), gx[t][a])

PopulationNonNeg == \A t \in 0..step : NonNeg(population[t])

\* C4 as stated: with gx >= -1 in every cell (and the rest of the domain),
\* every computed population entry is >= 0.
C4_NonNegative ==
  InDomain => PopulationNonNeg

\* C4 amended: with gx >= 0 in every cell (and the rest of the domain),
\* every computed population entry is >= 0.
C4_NonNegativeInflow ==
  (InDomain /\ \A t \in 0..n_steps-1 : NonNeg(gx[t])) => PopulationNonNeg

C4_Witness ==
  /\ InDomain
  /\ \A t \in 0..n_steps-1 : NonNeg(gx[t])
  /\ step = n_steps
  /\ step >= 2
  /\ \E t \in 0..n_steps-1 : ~AllEqual(gx[t], Zero)
  /\ \E t \in 0..n_steps-1 : \E a \in 0..n_ages : sx[t][a] = Zero
  /\ \E a \in Ages : population[step][a] = Zero

\* C5: a call step_projection(s) changes nothing but population column s+1
\* and column s of deaths, births, infants and migrations; the parameter
\* tables and the scalars are unchanged.
C5_Frame ==
  [][ncalls' # ncalls =>
       LET s == last' IN
         /\ \A t \in DOMAIN population : t # s + 1 => population'[t] = population[t]
         /\ \A t \in DOMAIN deaths : t # s => deaths'[t] = deaths[t]
         /\ \A t \in DOMAIN births : t # s => births'[t] = births[t]
         /\ \A t \in DOMAIN infants : t # s => infants'[t] = infants[t]
         /\ \A t \in DOMAIN migrations : t # s => migrations'[t] = migrations[t]
         /\ <<sx, fx, gx, srb>>' = <<sx, fx, gx, srb>>
         /\ <<n_ages, n_steps, n_fx, fx_idx, age_span>>'
              = <<n_ages, n_steps, n_fx, fx_idx, age_span>>]_vars

C5_Witness ==
  /\ step >= 2
  /\ last = 1
  /\ population[2] # population[1]
  /\ population[1] # population[0]
  /\ deaths[1] # deaths[0]
  /\ population[0] = basepop

\* C6: zero fertility.  For every advanced step t whose fx column is zero:
\* births[:, t] is zero, infants[t] is zero, deaths[0, t] is zero and
\* population[0, t+1] = 0.5 * migrations[0, t] (zero when gx[0, t] is zero).
C6_ZeroFertility ==
  \A t \in Advanced :
    AllEqual(fx[t], Zero) =>
      /\ AllEqual(births[t], Zero)
      /\ infants[t] = Zero
      /\ deaths[t][0] = Zero
      /\ population[t + 1][0] = RMul(Half, migrations[t][0])
      /\ (gx[t][0] = Zero => population[t + 1][0] = Zero)

C6_Witness ==
  \E t \in Advanced :
    /\ AllEqual(fx[t], Zero)
    /\ population[t][0] # Zero
    /\ sx[t][0] # One
    /\ population[t + 1][0] # Zero

\* C7: migration-only growth.  For every advanced step t whose sx column is
\* all 1 and whose fx column is all 0: migrations[:, t] = population[:, t] *
\* gx[:, t] and sum(population[:, t+1]) = sum(population[:, t]) +
\* sum(migrations[:, t]); with one rate g in every age group the total grows
\* by g * sum(population[:, t]).
C7_MigrationOnly ==
  \A t \in Advanced :
    (AllEqual(sx[t], One) /\ AllEqual(fx[t], Zero)) =>
      /\ \A a \in Ages : migrations[t][a] = RMul(population[t][a], gx[t][a])
      /\ Total(population[t + 1]) = RAdd(Total(population[t]), Total(migrations[t]))
      /\ AllEqual(gx[t], gx[t][0]) =>
           Total(population[t + 1])
             = RAdd(Total(population[t]), RMul(gx[t][0], Total(population[t])))

\* basepop = [50, 50], g = 0.1: the total goes from 100 to 110
C7_Witness ==
  /\ step >= 1
  /\ n_ages = 2
  /\ AllEqual(sx[0], One) /\ AllEqual(fx[0], Zero)
  /\ AllEqual(basepop, Rat(50, 1))
  /\ AllEqual(gx[0], Rat(1, 10))
  /\ Total(population[1]) = Rat(110, 1)

\* C8: the open age group accumulates.  For every advanced step t with sx all
\* 1, fx all 0 and gx all 0: population[0, t+1] = 0, population[a, t+1] =
\* population[a-1, t] for 0 < a < n_ages-1, population[n_ages-1, t+1] =
\* population[n_ages-2, t] + population[n_ages-1, t], and all deaths are zero.
C8_OpenAgeAccumulates ==
  \A t \in Advanced :
    (AllEqual(sx[t], One) /\ AllEqual(fx[t], Zero) /\ AllEqual(gx[t], Zero)) =>
      /\ population[t + 1][0] = Zero
      /\ \A a \in 1..n_ages-2 : population[t + 1][a] = population[t][a - 1]
      /\ population[t + 1][n_ages - 1]
           = RAdd(population[t][n_ages - 2], population[t][n_ages - 1])
      /\ AllEqual(deaths[t], Zero)

\* n_ages = 3, basepop = [100, 100, 100] gives [0, 100, 200]
C8_Witness ==
  /\ step >= 1
  /\ n_ages = 3
  /\ AllEqual(sx[0], One) /\ AllEqual(fx[0], Zero) /\ AllEqual(gx[0], Zero)
  /\ population[0] = [a \in 0..2 |-> Rat(100, 1)]
  /\ population[1] = [a \in 0..2 |-> Rat(100 * a, 1)]

\* the positions C9 lists
LesliePositions ==
  {<<i, i - 1>> : i \in 1..n_ages-1}
    \cup {<<n_ages - 1, n_ages - 1>>}
    \cup {<<0, j>> : j \in fx_idx-1..fx_idx+n_fx-1}

\* fx[k] of column t, and 0 for k outside 0..n_fx-1
FxOrZero(t, k) == IF k \in 0..n_fx-1 THEN fx[t][k] ELSE Zero

\* the value C9 gives for position (r, c) of the matrix of column t
LeslieValue(t, r, c) ==
  IF r = 0
  THEN RMul(RDiv(RMul(RMul(sx[t][0], Half), age_span), RAdd(One, srb[t])),
            RAdd(RMul(FxOrZero(t, c - fx_idx + 1), sx[t][c + 1]),
                 FxOrZero(t, c - fx_idx)))
  ELSE IF r = c THEN sx[t][n_ages] ELSE sx[t][r]

\* C9: the matrix make_leslie_matrix built for the last column holds exactly
\* the listed positions with the listed values, no position is inserted twice
\* and no column holds more than 2 entries.
C9_LesliePattern ==
  lstep >= 1 =>
    /\ {<<leslie[n].row, leslie[n].col>> : n \in 1..Len(leslie)} = LesliePositions
    /\ \A n \in 1..Len(leslie) :
         leslie[n].val = LeslieValue(lstep - 1, leslie[n].row, leslie[n].col)
    /\ Len(leslie) = Cardinality(LesliePositions)
    /\ \A c \in Ages : Cardinality({n \in 1..Len(leslie) : leslie[n].col = c}) <= 2

C9_Witness ==
  /\ lstep >= 1
  /\ n_ages = 3
  /\ n_fx = 2
  /\ Len(leslie) = 6
  /\ \A n \in 1..Len(leslie) : leslie[n].val # Zero
  /\ \E n \in 1..Len(leslie) : leslie[n].row = 0 /\ leslie[n].col = 2
  /\ \E n \in 1..Len(leslie) : leslie[n].row = 2 /\ leslie[n].col = 2

\* what one step leaves behind, written from column t alone
ClosedForm(t) ==
  LET mig == [a \in Ages |-> RMul(population[t][a], gx[t][a])]
      P == [a \in Ages |-> RAdd(population[t][a], RMul(Half, mig[a]))]
      aged == [a \in Ages |->
                 IF a = 0 THEN Zero
                 ELSE IF a < n_ages - 1 THEN RMul(P[a - 1], sx[t][a])
                 ELSE RAdd(RMul(P[a - 1], sx[t][a]), RMul(P[a], sx[t][a + 1]))]
      b == [k \in 0..n_fx-1 |->
              RMul(RMul(RMul(Half, age_span), fx[t][k]),
                   RAdd(P[fx_idx + k], aged[fx_idx + k]))]
      inf == RDiv(SumFrom(b, 0, n_fx - 1), RAdd(One, srb[t]))
  IN  /\ migrations[t] = mig
      /\ births[t] = b
      /\ infants[t] = inf
      /\ deaths[t] = [i \in 0..n_ages |->
                        IF i = 0 THEN RSub(inf, RMul(inf, sx[t][0]))
                        ELSE RSub(P[i - 1], RMul(P[i - 1], sx[t][i]))]
      /\ population[t + 1] = [a \in Ages |->
                                RAdd(IF a = 0 THEN RMul(inf, sx[t][0]) ELSE aged[a],
                                     RMul(Half, mig[a]))]

\* C10: in a full-horizon run of ccmpp, step_projection is called once for
\* each step, in the order 0, 1, ..., n_steps-1 (the k-th call is the call for
\* step k-1), and the run then terminates: every run of ccmpp reaches the
\* return with exactly n_steps calls made and stays there (on the way every
\* step moves the loop one step on and n_steps is never passed); what step k
\* leaves behind
\* is determined by population column k and column k of sx, fx, gx and srb;
\* and no later step changes population columns 0..k+1 or columns 0..k of
\* deaths, births, infants and migrations.
C10_AppendOnlyRun ==
  /\ [](ncalls = step /\ last = step - 1)
  /\ [][ncalls' # ncalls => ncalls' = ncalls + 1 /\ last' = step]_vars
  /\ [](step <= n_steps /\ (pc = "done" => step = n_steps))
  /\ [][\/ pc = "loop" /\ step < n_steps /\ step' = step + 1 /\ pc' = "loop"
        \/ pc = "loop" /\ step = n_steps /\ step' = step /\ pc' = "done"]_vars
  /\ <>[](pc = "done" /\ ncalls = n_steps /\ last = n_steps - 1)
  /\ [](\A t \in Advanced : ClosedForm(t))
  /\ [][/\ \A t \in 0..step : population'[t] = population[t]
        /\ \A t \in Advanced :
             /\ deaths'[t] = deaths[t]
             /\ births'[t] = births[t]
             /\ infants'[t] = infants[t]
             /\ migrations'[t] = migrations[t]]_vars

C10_Witness ==
  /\ pc = "done"
  /\ n_steps >= 2
  /\ ncalls = n_steps
  /\ sx[0] # sx[1] /\ gx[0] # gx[1] /\ fx[0] # fx[1] /\ srb[0] # srb[1]
  /\ population[2] # population[1]

====
